---- MODULE Spec2Model ----
(***************************************************************************)
(* A model of BacSpecies.py: the newline splitter (line_iterator), the     *)
(* hit parser (BlastResult), the best-match scan of get_best_result, the   *)
(* report writer (generate_output, output) and the driver loop of main.    *)
(*                                                                         *)
(* Three specifications share the module:                                  *)
(*   SpecLines  line_iterator stepped over every short text;               *)
(*   SpecScan   the selector loop (lines 79-92) stepped hit by hit over    *)
(*              every short list of parsed hits;                           *)
(*   Spec       main: successive runs over input files against one output  *)
(*              path, get_best_result and output as one action each.       *)
(*                                                                         *)
(* Text is a sequence of characters; positions are Python's (0-based), so  *)
(* Python's s[i] is s[i + 1] here.  A float is modelled by the rational or *)
(* pair <<numerator, denominator>> it holds: percent identity 99.6 as      *)
(* <<996, 10>>, query coverage as <<100 * len(qseq), qlen>>; two floats    *)
(* are compared by cross multiplication.                                   *)
(***************************************************************************)
EXTENDS Integers, Sequences, FiniteSets, TLC

VARIABLES
    \* line_iterator (lines 94-102)
    line_breaks, line, yielded, lpc,
    \* the selector loop of get_best_result (lines 79-92)
    blast_hits, hitpos, best_match, best_pident, best_cov, accepted, spc,
    \* main (lines 141-155), the output file and standard output
    table, run, ninput, idx, out, main_best_match, stdout, pc,
    \* history: every list `line` that output() wrote, over all runs;
    \* base: how many of them earlier runs wrote
    history, base

linevars == <<line_breaks, line, yielded, lpc>>
scanvars == <<blast_hits, hitpos, best_match, best_pident, best_cov, accepted, spc>>
mainvars == <<table, run, ninput, idx, out, main_best_match, stdout, pc, history, base>>
vars == <<linevars, scanvars, mainvars>>

----
\* Bounds of the model.
MaxLen == 4
MaxHits == 3
MaxRuns == 2
MaxFiles == 2
MaxRows == 4

\* Sequences over S of length at most n.
SeqUpTo(S, n) == UNION {[1..k -> S] : k \in 0..n}

----
(***************************************************************************)
(* line_iterator                                                           *)
(***************************************************************************)
NL == "\n"
TAB == "\t"

\* str.find(ch, start): the lowest 0-based position >= start holding ch, or -1.
Find(s, ch, start) ==
    LET hits == {i \in start..(Len(s) - 1) : s[i + 1] = ch}
    IN  IF hits = {} THEN -1 ELSE CHOOSE i \in hits : \A j \in hits : i <= j

\* s[lo:hi] for 0 <= lo <= hi <= len(s).
Slice(s, lo, hi) == SubSeq(s, lo + 1, hi)

\* A mutant of NextLine: the text's end counts as a line break, so a final
\* fragment without a newline is yielded too (what str.splitlines does).
NextLineAtEnd(s, ln) ==
    IF Find(s, NL, ln + 1) < 0 /\ ln + 1 < Len(s) THEN Len(s) ELSE Find(s, NL, ln + 1)

\* line 98: nextline = line_breaks.find('\n', line + 1)
NextLine(s, ln) == Find(s, NL, ln + 1)

\* The list of everything line_iterator yields from position ln on (lines 97-102).
RECURSIVE LinesFrom(_, _)
LinesFrom(s, ln) ==
    LET nextline == NextLine(s, ln)
    IN  IF nextline < 0 THEN <<>>
        ELSE <<Slice(s, ln + 1, nextline)>> \o LinesFrom(s, nextline)

\* list(line_iterator(s)), as the loop at line 77 consumes it.
LineIterator(s) == LinesFrom(s, -1)

Chars == {"a", TAB, NL}

LinesInit ==
    /\ line_breaks \in SeqUpTo(Chars, MaxLen)
    /\ line = -1
    /\ yielded = <<>>
    /\ lpc = "loop"

\* lines 98, 101, 102: a newline is found; yield the slice and move on.
LineYield ==
    /\ lpc = "loop"
    /\ NextLine(line_breaks, line) >= 0
    /\ yielded' = Append(yielded, Slice(line_breaks, line + 1, NextLine(line_breaks, line)))
    /\ line' = NextLine(line_breaks, line)
    /\ UNCHANGED <<line_breaks, lpc>>

\* lines 99-100: no further newline; the generator ends.
LineBreak ==
    /\ lpc = "loop"
    /\ NextLine(line_breaks, line) < 0
    /\ lpc' = "done"
    /\ UNCHANGED <<line_breaks, line, yielded>>

----
(***************************************************************************)
(* Strings, numerals and the reference index                               *)
(*                                                                         *)
(* A Python str is a sequence of characters.  A run of characters that no  *)
(* operation of the program looks inside (a word of a species name, a file *)
(* name, a header cell) may be written as one element; TAB, NL and the     *)
(* space that process_reference splits on are always elements of their own.*)
(***************************************************************************)
SP == " "

\* str.split(sep): n separators give n + 1 parts, empty parts included.
RECURSIVE Split(_, _)
Split(s, sep) ==
    LET p == Find(s, sep, 0)
    IN  IF p < 0 THEN <<s>>
        ELSE <<Slice(s, 0, p)>> \o Split(Slice(s, p + 1, Len(s)), sep)

\* sep.join(parts)
RECURSIVE Join(_, _)
Join(parts, sep) ==
    IF parts = <<>> THEN <<>>
    ELSE IF Len(parts) = 1 THEN parts[1]
    ELSE parts[1] \o <<sep>> \o Join(Tail(parts), sep)

DigitVal ==
    [c \in {"0", "1", "2", "3", "4", "5", "6", "7", "8", "9"} |->
        CASE c = "0" -> 0 [] c = "1" -> 1 [] c = "2" -> 2 [] c = "3" -> 3
          [] c = "4" -> 4 [] c = "5" -> 5 [] c = "6" -> 6 [] c = "7" -> 7
          [] c = "8" -> 8 [] c = "9" -> 9]

\* int(s) for a numeral of decimal digits.
RECURSIVE ParseInt(_)
ParseInt(s) ==
    IF s = <<>> THEN 0
    ELSE 10 * ParseInt(SubSeq(s, 1, Len(s) - 1)) + DigitVal[s[Len(s)]]

RECURSIVE Pow10(_)
Pow10(n) == IF n = 0 THEN 1 ELSE 10 * Pow10(n - 1)

\* float(s) for a decimal numeral, as the rational <<numerator, denominator>>.
ParseFloat(s) ==
    LET p == Find(s, ".", 0)
    IN  IF p < 0 THEN <<ParseInt(s), 1>>
        ELSE <<ParseInt(Slice(s, 0, p) \o Slice(s, p + 1, Len(s))), Pow10(Len(s) - p - 1)>>

\* a >= b on two floats held as rationals with positive denominators.
GE(a, b) == a[1] * b[2] >= b[1] * a[2]
LT(a, b) == ~GE(a, b)
Zero == <<0, 1>>

\* The reference FASTA as `for line in file` reads it: header lines and
\* sequence lines, each with its newline.
RefFile ==
    << <<">", "X", SP, "Species", SP, "A", SP, "strain", SP, "K12", NL>>,
       <<"A", "C", "G", "T", NL>>,
       <<">", "Y", SP, "Species", SP, "B", SP, "16S", NL>>,
       <<"G", "G", "C", "A", NL>> >>

\* lines 49-60: the dict id -> name built from the header lines.
RECURSIVE ProcessReferenceFrom(_, _)
ProcessReferenceFrom(file, database) ==
    IF file = <<>> THEN database
    ELSE LET ln == Head(file)
         IN  IF ln # <<>> /\ ln[1] = ">"
             THEN LET info == Split(Tail(ln), SP)
                      id == info[1]
                      name == info[2] \o <<SP>> \o info[3]
                  IN  ProcessReferenceFrom(Tail(file),
                          [k \in DOMAIN database \cup {id} |->
                              IF k = id THEN name ELSE database[k]])
             ELSE ProcessReferenceFrom(Tail(file), database)

ProcessReference(file) == ProcessReferenceFrom(file, << >>)

\* line 147: the index main builds once.
Database == ProcessReference(RefFile)

NameA == <<"Species", SP, "A">>
NameB == <<"Species", SP, "B">>
IdX == <<"X">>
IdY == <<"Y">>
IdW == <<"W">>

----
(***************************************************************************)
(* BlastResult and the selector loop                                       *)
(***************************************************************************)
\* The number of tab-delimited fields __init__ reads: parts[0] .. parts[11].
NFields == 12
\* line 83: hits shorter than this are skipped.
MinLength == 1000

\* lines 106-111.  Field k of the format is parts[k - 1] in Python.  A line
\* with fewer than 12 fields raises IndexError at parts[8] .. parts[11].
BlastResult(hit_string) ==
    LET parts == Split(hit_string, TAB)
    IN  IF Len(parts) < NFields THEN [raised |-> "IndexError"]
        ELSE [raised |-> "",
              qseqid |-> parts[1],
              length |-> ParseInt(parts[9]),
              pident |-> ParseFloat(parts[10]),
              query_cov |-> LET q == ParseFloat(parts[11])
                            IN  <<100 * Len(parts[12]) * q[2], q[1]>>]

\* lines 76-78: every yielded line is parsed, in order, before the scan.
ParseAll(lines) == [i \in 1..Len(lines) |-> BlastResult(lines[i])]

\* Mutants of TooShort: a filter that lets every hit through, and one that
\* also drops a hit of exactly 1000 bases.
TooShortNever(hit) == FALSE
TooShortInclusive(hit) == hit.length <= MinLength

\* line 83
TooShort(hit) == hit.length < MinLength

\* A mutant of NotWorse: either metric holding is enough.
NotWorseEither(hit, bp, bc) == GE(hit.pident, bp) \/ GE(hit.query_cov, bc)

\* line 85
NotWorse(hit, bp, bc) == GE(hit.pident, bp) /\ GE(hit.query_cov, bc)

InSeq(x, s) == \E i \in 1..Len(s) : s[i] = x

\* Mutants of ScanStep: one that appends without the membership test, and
\* one that tests membership before it raises the thresholds.
ScanStepNoDedup(st, hit, database) ==
    IF TooShort(hit) THEN st
    ELSE IF NotWorse(hit, st.best_pident, st.best_cov)
    THEN IF hit.qseqid \notin DOMAIN database
         THEN [st EXCEPT !.best_pident = hit.pident, !.best_cov = hit.query_cov,
                         !.raised = "KeyError"]
         ELSE [st EXCEPT !.best_pident = hit.pident, !.best_cov = hit.query_cov,
                         !.best_match = Append(@, database[hit.qseqid])]
    ELSE st

ScanStepDedupFirst(st, hit, database) ==
    IF TooShort(hit) THEN st
    ELSE IF NotWorse(hit, st.best_pident, st.best_cov)
    THEN IF hit.qseqid \notin DOMAIN database
         THEN [st EXCEPT !.raised = "KeyError"]
         ELSE IF InSeq(database[hit.qseqid], st.best_match)
         THEN st
         ELSE [st EXCEPT !.best_pident = hit.pident, !.best_cov = hit.query_cov,
                         !.best_match = Append(@, database[hit.qseqid])]
    ELSE st

\* lines 83-91: the body of the loop for one hit.  database[hit.qseqid] of
\* an id that is no key raises KeyError, after the thresholds were set.
ScanStep(st, hit, database) ==
    IF TooShort(hit) THEN st
    ELSE IF NotWorse(hit, st.best_pident, st.best_cov)
    THEN IF hit.qseqid \notin DOMAIN database
         THEN [st EXCEPT !.best_pident = hit.pident, !.best_cov = hit.query_cov,
                         !.raised = "KeyError"]
         ELSE IF InSeq(database[hit.qseqid], st.best_match)
         THEN [st EXCEPT !.best_pident = hit.pident, !.best_cov = hit.query_cov]
         ELSE [st EXCEPT !.best_pident = hit.pident, !.best_cov = hit.query_cov,
                         !.best_match = Append(@, database[hit.qseqid])]
    ELSE st

\* lines 79-81
ScanStart == [best_match |-> <<>>, best_cov |-> Zero, best_pident |-> Zero, raised |-> ""]

\* lines 82-92: the loop over hits[from..], stopping at a raised exception.
RECURSIVE ScanFrom(_, _, _, _)
ScanFrom(st, hits, from, database) ==
    IF from > Len(hits) \/ st.raised # "" THEN st
    ELSE ScanFrom(ScanStep(st, hits[from], database), hits, from + 1, database)

Scan(hits, database) == ScanFrom(ScanStart, hits, 1, database)

----
(***************************************************************************)
(* SpecScan: the loop of lines 79-92, one hit per step                     *)
(***************************************************************************)
\* Parsed hits the scan is run over: two ids of the index, a length on each
\* side of the filter, two identities and two coverages (80 % and 100 %).
ScanHits ==
    {[raised |-> "", qseqid |-> q, length |-> l, pident |-> p, query_cov |-> c] :
        q \in {IdX, IdY}, l \in {999, 1000},
        p \in {<<996, 10>>, <<99800, 1000>>}, c \in {<<400, 5>>, <<300, 3>>}}

ScanState ==
    [best_match |-> best_match, best_cov |-> best_cov, best_pident |-> best_pident,
     raised |-> ""]

ScanIdle ==
    /\ blast_hits = <<>>
    /\ hitpos = 1
    /\ best_match = <<>>
    /\ best_cov = Zero
    /\ best_pident = Zero
    /\ accepted = <<>>
    /\ spc = "idle"

\* lines 79-81, before the first hit.
ScanInit ==
    /\ blast_hits \in SeqUpTo(ScanHits, MaxHits)
    /\ hitpos = 1
    /\ best_match = ScanStart.best_match
    /\ best_cov = ScanStart.best_cov
    /\ best_pident = ScanStart.best_pident
    /\ accepted = <<>>
    /\ spc = "loop"

\* lines 82-91 for the hit at hitpos.  accepted records the positions of the
\* hits for which lines 86-87 ran.
ScanHit ==
    /\ spc = "loop"
    /\ hitpos <= Len(blast_hits)
    /\ LET hit == blast_hits[hitpos]
           st == ScanStep(ScanState, hit, Database)
       IN  /\ best_match' = st.best_match
           /\ best_pident' = st.best_pident
           /\ best_cov' = st.best_cov
           /\ accepted' = IF ~TooShort(hit) /\ NotWorse(hit, best_pident, best_cov)
                          THEN Append(accepted, hitpos) ELSE accepted
           /\ spc' = IF st.raised # "" THEN "raised" ELSE "loop"
    /\ hitpos' = hitpos + 1
    /\ UNCHANGED blast_hits

\* line 92
ScanReturn ==
    /\ spc = "loop"
    /\ hitpos > Len(blast_hits)
    /\ spc' = "done"
    /\ UNCHANGED <<blast_hits, hitpos, best_match, best_pident, best_cov, accepted>>

----
(***************************************************************************)
(* The report writer and main                                              *)
(***************************************************************************)
\* line 117
Headers == << <<"Sequence">>, <<"Best_match">>, <<"Problems">>, <<"Extra informations">> >>

\* A mutant of GenerateOutput: no is_file test, so open(outdir, 'wt')
\* truncates an existing table and writes the header again.
GenerateOutputAlways(tbl) == [exists |-> TRUE, text |-> Join(Headers, TAB) \o <<NL>>]

\* lines 113-120.  The file at outdir is [exists, text].
GenerateOutput(tbl) ==
    IF tbl.exists THEN tbl
    ELSE [exists |-> TRUE, text |-> Join(Headers, TAB) \o <<NL>>]

\* A mutant of OutputLine: the first name is repeated among the extra columns.
OutputLineAll(bm, inputfile) ==
    IF Len(bm) = 1 THEN <<inputfile, bm[1]>>
    ELSE IF Len(bm) = 0 THEN <<inputfile, <<"NA">>, <<"Unavailable">> >>
    ELSE <<inputfile, bm[1], <<"Multiple results">> >> \o bm

\* lines 124-134: the list `line`.
OutputLine(bm, inputfile) ==
    IF Len(bm) = 1 THEN <<inputfile, bm[1]>>
    ELSE IF Len(bm) = 0 THEN <<inputfile, <<"NA">>, <<"Unavailable">> >>
    ELSE <<inputfile, bm[1], <<"Multiple results">> >> \o Tail(bm)

\* lines 124-135: the printed summary.
SimpleOutput(bm, inputfile) ==
    IF Len(bm) = 1 THEN inputfile \o <<": ">> \o bm[1]
    ELSE IF Len(bm) = 0 THEN inputfile \o <<": ", "Unavailable">>
    ELSE inputfile \o <<": ", "Multiple results, please check the output file">>

\* lines 136-139: open(outdir, 'at') creates the file if need be and appends.
OutputWrite(tbl, bm, inputfile) ==
    [exists |-> TRUE, text |-> tbl.text \o Join(OutputLine(bm, inputfile), TAB) \o <<NL>>]

\* line 71
NoHitMessage(inputfile) ==
    <<"The sequence file ">> \o inputfile
        \o <<" has no blast hit, please check the fasta file">>

\* line 70: out is the str that decode() returned; a str never equals 0.
OutEqualsZero(o) == FALSE

\* A mutant of GetBestResult: a line that cannot be parsed and an id that is
\* no key are skipped, and the call returns what the other hits gave.
GetBestResultLenient(inputfile, o, database) ==
    LET hits == ParseAll(LineIterator(o))
        good == SelectSeq(hits, LAMBDA h : h.raised = ""
                                           /\ h.qseqid \in DOMAIN database)
    IN  [printed |-> <<>>, raised |-> "", best_match |-> Scan(good, database).best_match]

\* lines 69-92 on the text blastn wrote: what is printed, the exception that
\* leaves the call (none: ""), and the list returned.
GetBestResult(inputfile, o, database) ==
    LET printed == IF OutEqualsZero(o) THEN <<NoHitMessage(inputfile)>> ELSE <<>>
        hits == ParseAll(LineIterator(o))
    IN  IF \E i \in 1..Len(hits) : hits[i].raised # ""
        THEN [printed |-> printed, raised |-> "IndexError", best_match |-> <<>>]
        ELSE LET st == Scan(hits, database)
             IN  [printed |-> printed, raised |-> st.raised,
                  best_match |-> IF st.raised = "" THEN st.best_match ELSE <<>>]

\* One line of blastn's -outfmt 6 output (line 67): twelve fields, tabs between.
HitLine(qseqid, length, pident, qlen, qseq) ==
    Join(<<qseqid, <<"s">>, <<"1">>, <<"4">>, <<"1">>, <<"4">>, <<"0">>, <<"9">>,
           length, pident, qlen, qseq>>, TAB)

\* X, 1200 bases, 99.6 %, coverage 4/5
LineA == HitLine(IdX, <<"1", "2", "0", "0">>, <<"9", "9", ".", "6">>, <<"5">>,
                 <<"A", "C", "G", "T">>)
\* Y, 1300 bases, 99.6 %, coverage 4/4
LineB == HitLine(IdY, <<"1", "3", "0", "0">>, <<"9", "9", ".", "6", "0">>, <<"4">>,
                 <<"A", "C", "G", "T">>)
\* X, 500 bases
LineShort == HitLine(IdX, <<"5", "0", "0">>, <<"9", "9", ".", "9">>, <<"4">>,
                     <<"A", "C", "G", "T">>)
\* W is no key of the index: 1200 bases, and 500 bases
LineW == HitLine(IdW, <<"1", "2", "0", "0">>, <<"9", "9", ".", "9">>, <<"4">>,
                 <<"A", "C", "G", "T">>)
LineShortW == HitLine(IdW, <<"5", "0", "0">>, <<"9", "9", ".", "9">>, <<"4">>,
                      <<"A", "C", "G", "T">>)
\* eleven fields: the last one is missing
LineBad == Join(<<IdX, <<"s">>, <<"1">>, <<"4">>, <<"1">>, <<"4">>, <<"0">>, <<"9">>,
                  <<"1", "2", "0", "0">>, <<"9", "9", ".", "6">>, <<"5">> >>, TAB)

\* What blastn may have written for an input file.
Outputs ==
    { <<>>,
      LineA \o <<NL>>,
      LineA \o <<NL>> \o LineB \o <<NL>>,
      LineA \o <<NL>> \o LineB,
      LineShort \o <<NL>>,
      LineShortW \o <<NL>> \o LineA \o <<NL>>,
      LineBad \o <<NL>>,
      LineA \o <<NL>> \o LineBad,
      LineA \o <<NL>> \o LineW \o <<NL>>,
      LineB \o <<NL>> \o <<NL>> }

\* args.input[i - 1]
InputFile(i) == <<"seq", ToString(i), ".fasta">>

MainIdle ==
    /\ table = [exists |-> FALSE, text |-> <<>>]
    /\ run = 0
    /\ ninput = 0
    /\ idx = 1
    /\ out = <<>>
    /\ main_best_match = <<>>
    /\ stdout = <<>>
    /\ pc = "idle"
    /\ history = <<>>
    /\ base = 0

LinesIdle ==
    /\ line_breaks = <<>>
    /\ line = -1
    /\ yielded = <<>>
    /\ lpc = "idle"

\* lines 143-147: a run of the program starts, with one or more input files.
\* The output path and its file are those the earlier runs left.  Runs are
\* started while the table has room for their rows (MaxRows).
Start ==
    /\ pc \in {"idle", "done", "raised"}
    /\ run < MaxRuns
    /\ run' = run + 1
    /\ \E n \in 1..MaxFiles : Len(history) + n <= MaxRows /\ ninput' = n
    /\ idx' = 1
    /\ out' = <<>>
    /\ main_best_match' = <<>>
    /\ stdout' = <<>>
    /\ base' = Len(history)
    /\ pc' = "generate_output"
    /\ UNCHANGED <<table, history>>

\* line 148
GenerateOutputCall ==
    /\ pc = "generate_output"
    /\ table' = GenerateOutput(table)
    /\ pc' = "loop"
    /\ UNCHANGED <<run, ninput, idx, out, main_best_match, stdout, history, base>>

\* line 151: get_best_result for the next input file.  An exception that
\* leaves it leaves main too (no handler anywhere): the run ends.  out is
\* the text blastn wrote, kept until output() has returned.
GetBestResultCall ==
    /\ pc = "loop"
    /\ idx <= ninput
    /\ \E o \in Outputs :
        LET r == GetBestResult(InputFile(idx), o, Database)
        IN  /\ out' = o
            /\ stdout' = stdout \o r.printed
            /\ main_best_match' = IF r.raised # "" THEN main_best_match ELSE r.best_match
            /\ pc' = IF r.raised # "" THEN "raised" ELSE "output"
    /\ UNCHANGED <<table, run, ninput, idx, history, base>>

\* line 153: output() for the file just aligned, and on to the next file.
OutputCall ==
    /\ pc = "output"
    /\ stdout' = Append(stdout, SimpleOutput(main_best_match, InputFile(idx)))
    /\ table' = OutputWrite(table, main_best_match, InputFile(idx))
    /\ history' = Append(history, OutputLine(main_best_match, InputFile(idx)))
    /\ idx' = idx + 1
    /\ out' = <<>>
    /\ pc' = "loop"
    /\ UNCHANGED <<run, ninput, main_best_match, base>>

\* lines 154-155: the loop is over; the time is printed.
Finish ==
    /\ pc = "loop"
    /\ idx > ninput
    /\ stdout' = Append(stdout, <<"Total time consumed">>)
    /\ pc' = "done"
    /\ UNCHANGED <<table, run, ninput, idx, out, main_best_match, history, base>>

----
Init == LinesIdle /\ ScanIdle /\ MainIdle
Next ==
    \/ Start /\ UNCHANGED <<linevars, scanvars>>
    \/ GenerateOutputCall /\ UNCHANGED <<linevars, scanvars>>
    \/ GetBestResultCall /\ UNCHANGED <<linevars, scanvars>>
    \/ OutputCall /\ UNCHANGED <<linevars, scanvars>>
    \/ Finish /\ UNCHANGED <<linevars, scanvars>>
Spec == Init /\ [][Next]_vars

InitScan == LinesIdle /\ ScanInit /\ MainIdle
NextScan ==
    \/ ScanHit /\ UNCHANGED <<linevars, mainvars>>
    \/ ScanReturn /\ UNCHANGED <<linevars, mainvars>>
SpecScan == InitScan /\ [][NextScan]_vars

InitLines == LinesInit /\ ScanIdle /\ MainIdle
NextLines ==
    \/ LineYield /\ UNCHANGED <<scanvars, mainvars>>
    \/ LineBreak /\ UNCHANGED <<scanvars, mainvars>>
SpecLines == InitLines /\ [][NextLines]_vars

----
(***************************************************************************)
(* Properties                                                              *)
(***************************************************************************)
\* The newline-terminated substrings of s, in order, stated over the
\* positions of its newlines.
TerminatedLines(s) ==
    LET P == {i \in 1..Len(s) : s[i] = NL}
        pos(k) == CHOOSE i \in P : Cardinality({j \in P : j < i}) = k - 1
        start(k) == IF k = 1 THEN 1 ELSE pos(k - 1) + 1
    IN  [k \in 1..Cardinality(P) |-> SubSeq(s, start(k), pos(k) - 1)]

\* The rows and columns a reader of the table file sees.
Rows(text) ==
    LET ls == TerminatedLines(text)
    IN  [i \in 1..Len(ls) |-> Split(ls[i], TAB)]

\* s without the later occurrences of each element.
RECURSIVE FirstOccurrences(_)
FirstOccurrences(s) ==
    IF s = <<>> THEN <<>>
    ELSE LET d == FirstOccurrences(SubSeq(s, 1, Len(s) - 1))
         IN  IF InSeq(s[Len(s)], d) THEN d ELSE Append(d, s[Len(s)])

\* The hits the loop has been through.
Scanned == 1..(hitpos - 1)
IsAccepted(k) == \E a \in 1..Len(accepted) : accepted[a] = k
AcceptedNames == [a \in 1..Len(accepted) |-> Database[blast_hits[accepted[a]].qseqid]]

\* C1: no accepted hit has both a strictly lower percent identity and a
\* strictly lower query coverage than a hit accepted earlier in the scan.
C1_NoRegression ==
    \A i, j \in 1..Len(accepted) :
        i < j =>
            ~(/\ LT(blast_hits[accepted[j]].pident, blast_hits[accepted[i]].pident)
              /\ LT(blast_hits[accepted[j]].query_cov, blast_hits[accepted[i]].query_cov))

\* Two hits were accepted, and a hit long enough that is lower on both
\* metrics than an earlier accepted hit was turned down.
C1_Witness ==
    /\ spc = "done"
    /\ Len(accepted) >= 2
    /\ \E k \in 1..Len(blast_hits) : \E a \in 1..Len(accepted) :
        /\ accepted[a] < k
        /\ blast_hits[k].length >= MinLength
        /\ ~IsAccepted(k)
        /\ LT(blast_hits[k].pident, blast_hits[accepted[a]].pident)
        /\ LT(blast_hits[k].query_cov, blast_hits[accepted[a]].query_cov)

\* C2: a hit with alignment_length < 1000 changes nothing: at every point
\* of the scan best_match, best_pident and best_cov are what the same scan
\* gives on the hits seen so far with every such hit removed.
C2_ShortHitsIgnored ==
    LET long == SelectSeq(SubSeq(blast_hits, 1, hitpos - 1),
                          LAMBDA h : h.length >= MinLength)
        st == Scan(long, Database)
    IN  spc \in {"loop", "done"} =>
            /\ best_match = st.best_match
            /\ best_pident = st.best_pident
            /\ best_cov = st.best_cov

\* The scan ended with a result, having passed a short hit of a species not
\* in the result whose identity and coverage are at least the final best.
C2_Witness ==
    /\ spc = "done"
    /\ best_match # <<>>
    /\ \E k \in 1..Len(blast_hits) :
        /\ blast_hits[k].length < MinLength
        /\ GE(blast_hits[k].pident, best_pident)
        /\ GE(blast_hits[k].query_cov, best_cov)
        /\ ~InSeq(Database[blast_hits[k].qseqid], best_match)

\* C3: at every step of the scan best_match holds no name twice, and holds
\* the names of the accepted hits in the order of their first acceptance.
C3_DistinctInOrder ==
    /\ \A i, j \in 1..Len(best_match) : best_match[i] = best_match[j] => i = j
    /\ best_match = FirstOccurrences(AcceptedNames)

\* Three hits were accepted, of species B, A and again B or A: the result
\* is B then A.
C3_Witness ==
    /\ Len(accepted) = 3
    /\ best_match = <<NameB, NameA>>
    /\ AcceptedNames[2] = NameA

\* C9: best_pident and best_cov are those of the most recently accepted
\* hit (0.0 before any), whether or not that hit's name was already in
\* best_match.
C9_ThresholdsFollowAccepted ==
    IF accepted = <<>> THEN best_pident = Zero /\ best_cov = Zero
    ELSE /\ best_pident = blast_hits[accepted[Len(accepted)]].pident
         /\ best_cov = blast_hits[accepted[Len(accepted)]].query_cov

\* A hit of a name already in best_match raised a threshold, and a later
\* hit of another species, which the thresholds before it would have let
\* in, was turned down.
C9_Witness ==
    \E a \in 2..Len(accepted) : \E k \in Scanned :
        LET first == blast_hits[accepted[a - 1]]
            dup == blast_hits[accepted[a]]
            late == blast_hits[k]
        IN  /\ Database[dup.qseqid] = Database[first.qseqid]
            /\ a = Len(accepted)
            /\ k > accepted[a]
            /\ late.length >= MinLength
            /\ Database[late.qseqid] # Database[dup.qseqid]
            /\ NotWorse(late, first.pident, first.query_cov)
            /\ ~IsAccepted(k)
            /\ ~InSeq(Database[late.qseqid], best_match)

\* C10: among the hits seen so far, the result is empty exactly when none
\* has alignment_length >= 1000; otherwise the first such hit was accepted
\* and its species name is the first element of the result.
C10_FirstLongHit ==
    LET P == {k \in Scanned : blast_hits[k].length >= MinLength}
        first == CHOOSE k \in P : \A m \in P : k <= m
    IN  /\ best_match = <<>> <=> P = {}
        /\ P # {} =>
            /\ accepted # <<>>
            /\ accepted[1] = first
            /\ best_match[1] = Database[blast_hits[first].qseqid]

\* The scan ended; its first hit of 1000 bases or more came after a short
\* one and is of exactly 1000 bases, and a later hit was accepted too.
C10_Witness ==
    /\ spc = "done"
    /\ Len(accepted) >= 2
    /\ accepted[1] > 1
    /\ blast_hits[accepted[1]].length = MinLength
    /\ Len(best_match) = 2

\* C8: line_iterator yields, in order, exactly the substrings that a
\* newline ends, empty ones included, and never the fragment after the
\* last newline: what it has yielded is always a prefix of them, and all
\* of them when it returns.
C8_TerminatedLinesOnly ==
    LET want == TerminatedLines(line_breaks)
    IN  /\ Len(yielded) <= Len(want)
        /\ yielded = SubSeq(want, 1, Len(yielded))
        /\ lpc = "done" => yielded = want

\* The iterator returned after yielding a line and an empty line, leaving
\* out a fragment with no newline after it.
C8_Witness ==
    /\ lpc = "done"
    /\ Len(yielded) >= 2
    /\ \E k \in 1..Len(yielded) : yielded[k] = <<>>
    /\ \E k \in 1..Len(yielded) : yielded[k] # <<>>
    /\ line_breaks[Len(line_breaks)] # NL

----
\* The rows output() wrote in the current run.
RunRows == SubSeq(history, base + 1, Len(history))

\* A newline-terminated line of o with fewer than 12 tab-delimited fields.
MalformedLine(o) ==
    \E l \in {TerminatedLines(o)[k] : k \in 1..Len(TerminatedLines(o))} :
        Cardinality({i \in 1..Len(l) : l[i] = TAB}) < NFields - 1

\* All lines of o parse, and a hit that passes the length filter and the
\* identity/coverage test, as the scan stands when it reaches the hit, has
\* a query id that is no key of the index.
MissingKey(o) ==
    /\ ~MalformedLine(o)
    /\ LET hits == ParseAll(TerminatedLines(o))
       IN  \E k \in 1..Len(hits) :
            LET st == Scan(SubSeq(hits, 1, k - 1), Database)
            IN  /\ st.raised = ""
                /\ hits[k].qseqid \notin DOMAIN Database
                /\ hits[k].length >= MinLength
                /\ GE(hits[k].pident, st.best_pident)
                /\ GE(hits[k].query_cov, st.best_cov)

\* C4 as stated: a per-file error is isolated to its file, so when the run
\* is over every input file after the failing one has its row.  (At
\* pc = "raised" the exception has left main: the run is over.)
C4_ErrorIsolated ==
    pc = "raised" =>
        \A i \in (idx + 1)..ninput :
            \E h \in 1..Len(RunRows) : RunRows[h][1] = InputFile(i)

\* C4 as the code has it: get_best_result raises exactly for an output
\* with a malformed terminated line or an accepted hit of unknown id; the
\* exception ends the run, with the rows of the files before the failing
\* one in the table and no row for it or for any file after it.
C4_ErrorEndsRun ==
    /\ pc = "output" => ~MalformedLine(out) /\ ~MissingKey(out)
    /\ pc = "raised" =>
        /\ MalformedLine(out) \/ MissingKey(out)
        /\ Len(RunRows) = idx - 1
        /\ \A i \in 1..(idx - 1) : RunRows[i][1] = InputFile(i)
        /\ Rows(table.text) = <<Headers>> \o history

\* On a table that earlier rows are in, the first of two input files
\* failed: the run is over with no row for either.
C4_Witness ==
    /\ pc = "raised"
    /\ idx < ninput
    /\ base > 0
    /\ RunRows = <<>>

\* C5: for an input file whose alignment output is empty, when
\* get_best_result has returned the no-hit message has been printed, the
\* result is empty, and the row output() is about to write is
\* [input, NA, Unavailable].
C5_NoHitReported ==
    pc = "output" /\ out = <<>> =>
        /\ InSeq(NoHitMessage(InputFile(idx)), stdout)
        /\ main_best_match = <<>>
        /\ OutputLine(main_best_match, InputFile(idx))
                = <<InputFile(idx), <<"NA">>, <<"Unavailable">> >>

\* The columns C6 gives for a result.
ExpectedColumns(bm, inputfile) ==
    CASE Len(bm) = 0 -> <<inputfile, <<"NA">>, <<"Unavailable">> >>
      [] Len(bm) = 1 -> <<inputfile, bm[1]>>
      [] OTHER -> <<inputfile, bm[1], <<"Multiple results">> >>
                    \o [k \in 1..(Len(bm) - 1) |-> bm[k + 1]]

C7_HeaderOnce ==
    /\ table.exists => Rows(table.text) = <<Headers>> \o history
    /\ ~table.exists => history = <<>> /\ table.text = <<>>

\* generate_output has returned in a second run, on a table that holds
\* rows of the first.
C7_Witness ==
    /\ run = 2
    /\ pc = "loop"
    /\ idx = 1
    /\ base > 0
    /\ table.exists

====
